---------------------------- MODULE Spec2Model ----------------------------
(***************************************************************************)
(* Model of ecwid_sync.py: one synchronisation pass reads the order-number *)
(* column of the destination worksheet, pages through the order API (full  *)
(* or incremental mode), flattens the accepted orders into rows, cleans    *)
(* and sorts them, appends them to the worksheet and appends one log row.  *)
(*                                                                         *)
(* Text is modelled as a sequence of one-character strings, so that        *)
(* str.isdigit, int(), str.lower and the substring tests are computed and  *)
(* not assumed.  A date string is a record of the format it is written in  *)
(* and the civil day/hour/offset it shows; an instant is a number of hours *)
(* since the initial-fetch cut-off (2025-03-17 00:00 UTC).                 *)
(***************************************************************************)
EXTENDS Integers, Sequences, FiniteSets, TLC

\* A value that may be absent is a sequence of length at most one: None is
\* Python's None (a missing key, a blank cell), Some(x) a present value.
None == <<>>

Some(x) == <<x>>

-----------------------------------------------------------------------------
(* Bounds of the model *)

\* number of script invocations in one behaviour
MaxRuns == 2
\* the bulk sources hold up to MaxPages full pages (plus or minus one order)
MaxPages == 2
\* length of the sources drawn from the catalogue of hand-written orders
MaxSmall == 3

-----------------------------------------------------------------------------
(* Text *)

Digits == <<"0", "1", "2", "3", "4", "5", "6", "7", "8", "9">>

DigitChars == {Digits[i] : i \in 1..10}

DigitValue(c) == (CHOOSE i \in 1..10 : Digits[i] = c) - 1

\* str.isdigit(): non-empty and every character a digit
isdigit(s) == Len(s) > 0 /\ \A i \in 1..Len(s) : s[i] \in DigitChars

\* int(s) of a digit string
RECURSIVE int(_)
int(s) ==
    IF Len(s) = 0 THEN 0
    ELSE 10 * int(SubSeq(s, 1, Len(s) - 1)) + DigitValue(s[Len(s)])

\* the text a worksheet shows for a non-negative whole number
RECURSIVE NumberText(_)
NumberText(n) ==
    IF n < 10 THEN <<Digits[n + 1]>>
    ELSE NumberText(n \div 10) \o <<Digits[(n % 10) + 1]>>

Upper == <<"A", "B", "C", "D", "E", "F", "G", "H", "I", "J", "K", "L", "M",
           "N", "O", "P", "Q", "R", "S", "T", "U", "V", "W", "X", "Y", "Z">>

Lower == <<"a", "b", "c", "d", "e", "f", "g", "h", "i", "j", "k", "l", "m",
           "n", "o", "p", "q", "r", "s", "t", "u", "v", "w", "x", "y", "z">>

LowerChar(c) ==
    IF \E i \in 1..26 : Upper[i] = c
    THEN Lower[CHOOSE i \in 1..26 : Upper[i] = c]
    ELSE c

\* str.lower()
lower(s) == [i \in 1..Len(s) |-> LowerChar(s[i])]

\* Python's `x in name` for strings
Contains(name, x) ==
    \E i \in 0..(Len(name) - Len(x)) : SubSeq(name, i + 1, i + Len(x)) = x

\* name.replace(" ", "_")
ReplaceSpaces(s) == [i \in 1..Len(s) |-> IF s[i] = " " THEN "_" ELSE s[i]]

-----------------------------------------------------------------------------
(* Option Normalizer *)

KwColor == {<<"c","o","l","o","r">>, <<"c","o","l","o","u","r">>,
            <<"c","o","l","o","u","e">>, <<"c","o","l","o","u","r","s">>,
            <<"c","o","u","r","s">>}

KwSize == {<<"s","i","z","e">>, <<"s","i","z","i","n","g">>, <<"s","i","z","s">>}

KwCategory == {<<"c","a","t","e","g","o","r","y">>, <<"c","a","r","e","g","o","r","y">>,
               <<"c","a","t","e","g","o","r","i","e","s">>, <<"c","a","t","g","o","r","y">>}

KwDesigner == {<<"d","e","s","i","g","n","e","r">>}

KwThickness == {<<"t","h","i","c","k","n","e","s","s">>}

KeyColor == <<"c","o","l","o","r">>

KeySize == <<"s","i","z","e">>

KeyCategory == <<"c","a","t","e","g","o","r","y">>

KeyDesignerCategory == <<"d","e","s","i","g","n","e","r","_","c","a","t","e","g","o","r","y">>

KeyThickness == <<"t","h","i","c","k","n","e","s","s">>

\* normalize_option without name.lower()
normalize_option_as_written(name) ==
    IF \E x \in KwColor : Contains(name, x) THEN KeyColor
    ELSE IF \E x \in KwSize : Contains(name, x) THEN KeySize
    ELSE IF \E x \in KwCategory : Contains(name, x) THEN KeyCategory
    ELSE IF \E x \in KwDesigner : Contains(name, x) THEN KeyDesignerCategory
    ELSE IF \E x \in KwThickness : Contains(name, x) THEN KeyThickness
    ELSE ReplaceSpaces(name)

normalize_option(name) ==
    LET n == lower(name) IN
    IF \E x \in KwColor : Contains(n, x) THEN KeyColor
    ELSE IF \E x \in KwSize : Contains(n, x) THEN KeySize
    ELSE IF \E x \in KwCategory : Contains(n, x) THEN KeyCategory
    ELSE IF \E x \in KwDesigner : Contains(n, x) THEN KeyDesignerCategory
    ELSE IF \E x \in KwThickness : Contains(n, x) THEN KeyThickness
    ELSE ReplaceSpaces(n)

-----------------------------------------------------------------------------
(* Date Normalizer *)

\* ECWID_DATE_FORMATS, in the order they are tried
FmtOffset == "%Y-%m-%d %H:%M:%S %z"

FmtNaive == "%Y-%m-%d %H:%M:%S"

FmtDateOnly == "%Y-%m-%d"

ECWID_DATE_FORMATS == <<FmtOffset, FmtNaive, FmtDateOnly>>

\* A date string is [fmt, day, hour, off]: the format it is written in, the
\* civil day (counted from 2025-03-17) and hour it shows, and the UTC offset
\* it shows in hours (0 when the format shows none).  strptime(s, fmt)
\* succeeds exactly when s is written in fmt.
strptime_ok(date_str, fmt) == date_str.fmt = fmt

\* the instant, in hours since 2025-03-17 00:00 UTC; a naive datetime is
\* taken to be UTC
UtcHours(date_str) == date_str.day * 24 + date_str.hour - date_str.off

\* Africa/Lagos is UTC+1 all year
LagosOffset == 1

parse_and_standardize_date(date_str) ==
    IF date_str = None THEN None
    ELSE IF \E i \in 1..Len(ECWID_DATE_FORMATS) :
                strptime_ok(date_str[1], ECWID_DATE_FORMATS[i])
         THEN Some([utc |-> UtcHours(date_str[1]), tz |-> "Africa/Lagos"])
         ELSE None

\* dt.strftime("%d-%m-%Y %H:%M:%S") of a Lagos datetime
strftime_dmY(dt) ==
    [fmt |-> "%d-%m-%Y %H:%M:%S",
     day |-> (dt.utc + LagosOffset) \div 24,
     hour |-> (dt.utc + LagosOffset) % 24,
     off |-> 0]

-----------------------------------------------------------------------------
(* Order Flattener *)

fieldnames_flattened ==
    <<"create_date", "order_number", "product_name", "category", "size", "color">>

\* the option loop of one item: a later option overwrites an earlier one
RECURSIVE ApplyOptions(_, _)
ApplyOptions(row, opts) ==
    IF opts = <<>> THEN row
    ELSE LET opt == Head(opts)
             cleaned_option_name == normalize_option(opt.name)
             value == opt.value
             next == IF cleaned_option_name = KeyColor
                        THEN [row EXCEPT !.color = value]
                     ELSE IF cleaned_option_name = KeySize
                        THEN [row EXCEPT !.size = value]
                     ELSE IF cleaned_option_name = KeyCategory
                        THEN [row EXCEPT !.category = value]
                     ELSE row
         IN ApplyOptions(next, Tail(opts))

\* ItemRow with the options applied last to first
ItemRowFirstWins(base, item) ==
    ApplyOptions([create_date |-> base.create_date,
                  order_number |-> base.order_number,
                  product_name |-> item.name,
                  category |-> None, size |-> None, color |-> None],
                 [i \in 1..Len(item.selectedOptions) |->
                     item.selectedOptions[Len(item.selectedOptions) + 1 - i]])

\* row_for_flattened of one item (lines 195-218)
ItemRow(base, item) ==
    ApplyOptions([create_date |-> base.create_date,
                  order_number |-> base.order_number,
                  product_name |-> item.name,
                  category |-> None, size |-> None, color |-> None],
                 item.selectedOptions)

\* FlattenOrder with the row of an order without items forgotten
FlattenOrderSkipsEmpty(order) ==
    LET base_order_data == [create_date |-> order.createDate,
                            order_number |-> order.orderNumber]
    IN [i \in 1..Len(order.items) |-> ItemRow(base_order_data, order.items[i])]

\* the rows of one order (the body of the loop over new_orders_to_add)
FlattenOrder(order) ==
    LET raw_create_date == order.createDate
        parsed_create_date == parse_and_standardize_date(raw_create_date)
        formatted_create_date ==
            IF parsed_create_date # None
            THEN Some(strftime_dmY(parsed_create_date[1]))
            ELSE raw_create_date
        base_order_data == [create_date |-> formatted_create_date,
                            order_number |-> order.orderNumber]
    IN IF order.items = <<>>
       THEN << [create_date |-> base_order_data.create_date,
                order_number |-> base_order_data.order_number,
                product_name |-> None, category |-> None,
                size |-> None, color |-> None] >>
       ELSE [i \in 1..Len(order.items) |-> ItemRow(base_order_data, order.items[i])]

\* new_rows_for_flattened_sheet for a list of orders
\* the rows of orders[lo..hi], in order
RECURSIVE FlattenRange(_, _, _)
FlattenRange(orders, lo, hi) ==
    IF lo > hi THEN <<>>
    ELSE IF lo = hi THEN FlattenOrder(orders[lo])
    ELSE LET mid == (lo + hi) \div 2
         IN FlattenRange(orders, lo, mid) \o FlattenRange(orders, mid + 1, hi)

Flatten(orders) == FlattenRange(orders, 1, Len(orders))

-----------------------------------------------------------------------------
(* Row Sanitizer and Sorter *)

ID_COLUMNS == {"product_name"}

NUMERIC_COLUMNS == {"order_number"}

\* df[col].astype(str) on the object column: each value becomes str(value),
\* so None becomes the text "None"; the two later replacements ('<NA>',
\* pd.isna) leave that text alone
astype_str(v) == IF v = None THEN Some("None") ELSE v

\* pd.to_numeric(errors='coerce') followed by the NaN/inf -> None masks: a
\* missing number stays missing, a number stays itself
to_numeric(v) == IF v = None THEN None ELSE v

\* the else branch: None if pd.isna(x) else x
na_to_none(v) == IF v = None THEN None ELSE v

CleanRow(row) ==
    [create_date |-> na_to_none(row.create_date),
     order_number |-> to_numeric(row.order_number),
     product_name |-> astype_str(row.product_name),
     category |-> na_to_none(row.category),
     size |-> na_to_none(row.size),
     color |-> na_to_none(row.color)]

clean_dataframe_for_gspread(df) == [i \in 1..Len(df) |-> CleanRow(df[i])]

Reverse(s) == [i \in 1..Len(s) |-> s[Len(s) + 1 - i]]

\* rows of one sort key, in their order in df or (ties = "reversed") in the
\* opposite order: sort_values uses quicksort, which is not stable
Group(df, ties) == IF ties = "reversed" THEN Reverse(df) ELSE df

\* the rows of df, whose keys are all in lo..hi, by ascending key
RECURSIVE SortRange(_, _, _, _)
SortRange(df, lo, hi, ties) ==
    IF df = <<>> THEN <<>>
    ELSE IF lo = hi THEN Group(df, ties)
    ELSE LET mid == (lo + hi) \div 2
         IN SortRange(SelectSeq(df, LAMBDA row : row.order_number[1] <= mid), lo, mid, ties)
            \o SortRange(SelectSeq(df, LAMBDA row : row.order_number[1] > mid), mid + 1, hi, ties)

\* sort_values with the sort left out
sort_values_unsorted(df, ties) == df

\* df.sort_values(by='order_number_sortable', ascending=True): ascending
\* numeric key, rows without a number (NaN) last, in their order in df
sort_values(df, ties) ==
    LET numbered == SelectSeq(df, LAMBDA row : row.order_number # None)
        nans == SelectSeq(df, LAMBDA row : row.order_number = None)
        keys == {numbered[i].order_number[1] : i \in 1..Len(numbered)}
    IN IF keys = {} THEN nans
       ELSE LET lo == CHOOSE k \in keys : \A m \in keys : k <= m
                hi == CHOOSE k \in keys : \A m \in keys : m <= k
            IN SortRange(numbered, lo, hi, ties) \o nans

-----------------------------------------------------------------------------
(* The source (order API) and the destination (spreadsheet) *)

\* page size of both fetch loops
limit == 100

INITIAL_FETCH_DATE_STR == [fmt |-> FmtOffset, day |-> 0, hour |-> 0, off |-> 0]

Min(a, b) == IF a <= b THEN a ELSE b

\* An order is [orderNumber, createDate, items, created]: the three keys the
\* script reads, and the instant the store created it (hours since the
\* cut-off), which the store's createdFrom filter compares.
\* GET /orders?createdFrom=...: the orders created at or after the cut-off,
\* in the store's listing order
QueryCreatedFrom(src, created_from_param) ==
    SelectSeq(src, LAMBDA o : o.created >= UtcHours(created_from_param))

\* the orders of src, whose numbers are all in lo..hi, by ascending number
RECURSIVE NumberRange(_, _, _)
NumberRange(src, lo, hi) ==
    IF src = <<>> THEN <<>>
    ELSE IF lo = hi THEN src
    ELSE LET mid == (lo + hi) \div 2
         IN NumberRange(SelectSeq(src, LAMBDA o : o.orderNumber[1] <= mid), lo, mid)
            \o NumberRange(SelectSeq(src, LAMBDA o : o.orderNumber[1] > mid), mid + 1, hi)

\* GET /orders?sortBy=orderNumber&sortOrder=asc: every order, by ascending
\* order number (an order without a number, which the store never holds,
\* would be listed first)
QuerySortedAsc(src) ==
    LET numbered == SelectSeq(src, LAMBDA o : o.orderNumber # None)
        unnumbered == SelectSeq(src, LAMBDA o : o.orderNumber = None)
        keys == {numbered[i].orderNumber[1] : i \in 1..Len(numbered)}
    IN IF keys = {} THEN unnumbered
       ELSE LET lo == CHOOSE k \in keys : \A m \in keys : k <= m
                hi == CHOOSE k \in keys : \A m \in keys : m <= k
            IN unnumbered \o NumberRange(numbered, lo, hi)

\* the "items" of the page at `offset`
PageItems(listing, offset) ==
    SubSeq(listing, offset + 1, Min(offset + limit, Len(listing)))

Text_ORDER_NO == <<"O","R","D","E","R"," ","N","O">>

\* A worksheet row holds, for the order-number column, the text the sheet
\* shows, and for the other columns the value written (None: blank).
header_flattened ==
    [create_date |-> Some("ORDER DATETIME"), order_number |-> Text_ORDER_NO,
     product_name |-> Some("PRODUCT NAME"), category |-> Some("PRODUCT CATEGORY"),
     size |-> Some("PRODUCT SIZE"), color |-> Some("PRODUCT COLOUR")]

\* the cell a RAW write of an order number leaves: the number's digits, or
\* a blank cell for null
NumberCell(v) == IF v = None THEN <<>> ELSE NumberText(v[1])

SheetRow(row) == [row EXCEPT !.order_number = NumberCell(row.order_number)]

\* worksheet.col_values(col): the column's texts down to the last non-blank
\* cell
col_values_order_number(rows) ==
    LET filled == {i \in 1..Len(rows) : rows[i].order_number # <<>>}
    IN IF filled = {} THEN <<>>
       ELSE LET last == CHOOSE i \in filled : \A j \in filled : j <= i
            IN [i \in 1..last |-> rows[i].order_number]

\* s[1:]
DropFirst(s) == IF s = <<>> THEN <<>> ELSE Tail(s)

\* MaxOrderNumber with min for max
MinOrderNumber(existing) ==
    LET nums == {int(existing[i]) : i \in {j \in 1..Len(existing) : isdigit(existing[j])}}
    IN CHOOSE n \in nums : \A m \in nums : n <= m

\* max([num for num in existing if num.isdigit()], key=int), as an integer
MaxOrderNumber(existing) ==
    LET nums == {int(existing[i]) : i \in {j \in 1..Len(existing) : isdigit(existing[j])}}
    IN CHOOSE n \in nums : \A m \in nums : m <= n

\* the test of line 111
NoValidOrderNumbers(existing) ==
    existing = <<>> \/ \A i \in 1..Len(existing) : ~isdigit(existing[i])

-----------------------------------------------------------------------------
(* Inputs: the orders a store may hold, the worksheets a run may find *)

Opt(name, value) == [name |-> name, value |-> value]

Item(name, opts) == [name |-> name, selectedOptions |-> opts]

DateStr(fmt, day, hour, off) == Some([fmt |-> fmt, day |-> day, hour |-> hour, off |-> off])

L_Size == <<"S","i","z","e">>

L_SIZE == <<"S","I","Z","E">>

L_sizing == <<"s","i","z","i","n","g">>

L_Colour == <<"C","o","l","o","u","r">>

L_Category == <<"C","a","t","e","g","o","r","y">>

L_Material == <<"M","a","t","e","r","i","a","l">>

L_ShoeSize == <<"S","h","o","e"," ","s","i","z","e">>

\* the k-th order of a large store: no item or one, created k hours after
\* the cut-off
BulkOrder(k) ==
    [orderNumber |-> Some(k),
     createDate |-> DateStr(FmtOffset, k \div 24, k % 24, 0),
     created |-> k,
     items |-> IF k % 2 = 0 THEN <<>>
               ELSE <<Item(Some("Tee"), <<Opt(L_Size, Some("M"))>>)>>]

\* one order short of a page, one order more than a page, and pages filled
\* exactly (a store that gains an order goes one past each of these)
BulkSizes == {limit - 1, limit + 1} \cup {k * limit : k \in 1..MaxPages}

\* orders 1..n, listed newest first
BulkSources == {[i \in 1..n |-> BulkOrder(n + 1 - i)] : n \in BulkSizes}

\* hand-written orders that follow the data model (a positive order number)
Order103 ==
    [orderNumber |-> Some(103), createDate |-> DateStr(FmtNaive, 15, 10, 0),
     created |-> 370, items |-> <<>>]

Order105 ==
    [orderNumber |-> Some(105), createDate |-> DateStr(FmtOffset, 15, 23, 0),
     created |-> 383,
     items |-> <<Item(Some("Tee"), <<Opt(L_Colour, Some("Red")), Opt(L_sizing, Some("M"))>>)>>]

Order107 ==
    [orderNumber |-> Some(107), createDate |-> DateStr("%d/%m/%Y", 16, 0, 0),
     created |-> 384,
     items |-> <<Item(Some("Shoe"), <<Opt(L_SIZE, Some("42")), Opt(L_Material, Some("Suede")),
                                     Opt(L_ShoeSize, Some("43"))>>),
                 Item(None, <<Opt(L_Category, Some("Kids")), Opt(L_Colour, None)>>)>>]

\* created before the cut-off
Order99 ==
    [orderNumber |-> Some(99), createDate |-> DateStr(FmtDateOnly, -1, 0, 0),
     created |-> -24, items |-> <<Item(Some("Mug"), <<>>)>>]

\* a record without orderNumber and createDate
OrderUnnumbered ==
    [orderNumber |-> None, createDate |-> None, created |-> 400,
     items |-> <<Item(Some("Bag"), <<Opt(L_Size, Some("L"))>>)>>]

CatalogValid == {Order99, Order103, Order105, Order107}

CatalogLoose == CatalogValid \cup {OrderUnnumbered}

\* the sequences of at most MaxSmall different orders of a catalogue
SmallSources(catalog) ==
    UNION {{s \in [1..n -> catalog] : \A i, j \in 1..n : i # j => s[i] # s[j]} :
              n \in 0..MaxSmall}

UpperChar(c) ==
    IF \E i \in 1..26 : Lower[i] = c
    THEN Upper[CHOOSE i \in 1..26 : Lower[i] = c]
    ELSE c

\* the label in capitals
upper(s) == [i \in 1..Len(s) |-> UpperChar(s[i])]

\* the words option labels are made of: every keyword of the normalizer and
\* a word that holds none
LabelWords ==
    KwColor \cup KwSize \cup KwCategory \cup KwDesigner \cup KwThickness
        \cup {<<"m","a","t","e","r","i","a","l">>}

\* one keyword of each category and the word that holds none
PairWords ==
    {<<"c","o","l","o","u","r">>, <<"s","i","z","e">>,
     <<"c","a","t","e","g","o","r","y">>, <<"d","e","s","i","g","n","e","r">>,
     <<"t","h","i","c","k","n","e","s","s">>, <<"m","a","t","e","r","i","a","l">>}

\* labels of one word, or of two words with a space between, in small
\* letters and in capitals
Labels ==
    LET small == LabelWords \cup {a \o <<" ">> \o b : a, b \in PairWords}
    IN small \cup {upper(l) : l \in small}

\* an order whose one item has one option, under the label
OrderLabelled(label) ==
    [orderNumber |-> Some(120), createDate |-> DateStr(FmtNaive, 5, 9, 0),
     created |-> 129,
     items |-> <<Item(Some("Tee"), <<Opt(label, Some("x"))>>)>>]

LabelSources == {<<OrderLabelled(l)>> : l \in Labels}

JunkRow ==
    [create_date |-> None, order_number |-> <<"n","/","a">>,
     product_name |-> None, category |-> None, size |-> None, color |-> None]

HeaderOnly == [exists |-> TRUE, rows |-> <<header_flattened>>]

\* the orders worksheet a first run may find: none, the header alone, or
\* the header and a row somebody typed
InitialOrderSheets ==
    {[exists |-> FALSE, rows |-> <<>>],
     HeaderOnly,
     [exists |-> TRUE, rows |-> <<header_flattened, JunkRow>>]}

-----------------------------------------------------------------------------
(* State *)

VARIABLES
    env,        \* what load_dotenv finds: is store_id set, is secret_token set
    source,     \* the store's orders, in its listing order
    orders_ws,  \* the "Orders Data" worksheet: [exists, rows]
    log_ws,     \* the "Update Log" worksheet: [exists, rows]
    proc,       \* per invocation of the script: its position and variables
    gained      \* has the source gained an order since the last invocation began

vars == <<env, source, orders_ws, log_ws, proc, gained>>

Runs == 1..MaxRuns

Finished == {"done", "crashed", "aborted"}

\* the variables of one invocation; requests, fetch_failed, source_seen,
\* rows_seen (the rows the worksheet held when its column was read),
\* written, logged and log_failed record what the invocation did
\* the lists of an invocation that has ended are gone
Exit(p, pc) ==
    [p EXCEPT !.pc = pc, !.all_orders = <<>>, !.new_orders_to_add = <<>>,
              !.new_rows_for_flattened_sheet = <<>>, !.flattened_df = <<>>,
              !.requests = <<>>, !.offset = 0, !.last_order_number = 0,
              !.mode = "none", !.rows_seen = 0]

InitProc ==
    [pc |-> "start", mode |-> "none", last_order_number |-> 0, offset |-> 0,
     all_orders |-> <<>>, new_orders_to_add |-> <<>>,
     new_rows_for_flattened_sheet |-> <<>>, flattened_df |-> <<>>,
     requests |-> <<>>, fetch_failed |-> FALSE, source_seen |-> 0, rows_seen |-> 0,
     written |-> 0, logged |-> 0, log_failed |-> FALSE]

\* every store with a worksheet that holds its header; the stores of at
\* most one order also with the other worksheets
InitWith(stores) ==
    /\ \/ /\ env = [store_id |-> TRUE, secret_token |-> TRUE]
          /\ source \in stores
          /\ orders_ws \in InitialOrderSheets
          /\ Len(source) > 1 => orders_ws = HeaderOnly
       \/ /\ env \in {[store_id |-> FALSE, secret_token |-> TRUE],
                       [store_id |-> TRUE, secret_token |-> FALSE]}
          /\ source = <<BulkOrder(1)>>
          /\ orders_ws = HeaderOnly
    /\ log_ws = [exists |-> FALSE, rows |-> <<>>]
    /\ proc = [r \in Runs |-> InitProc]
    /\ gained = FALSE

\* stores of one order whose item has one option, under every label
InitLabels == InitWith(LabelSources) /\ orders_ws = HeaderOnly

\* stores that follow the data model: large ones and hand-written ones
Init == InitWith(BulkSources \cup SmallSources(CatalogValid))

\* small stores whose records may lack keys
InitLoose == InitWith(SmallSources(CatalogLoose))

-----------------------------------------------------------------------------
(* The script, one action per step between two network calls *)

\* invocations do not overlap: one starts when the ones before it have ended
Scheduled(r) == \A q \in 1..(r - 1) : proc[q].pc \in Finished

\* LoadConfig with the test of the credentials left out
LoadConfigUnchecked(r) ==
    /\ proc[r].pc = "start"
    /\ Scheduled(r)
    /\ proc' = [proc EXCEPT ![r].pc = "connect", ![r].source_seen = Len(source)]
    /\ gained' = FALSE
    /\ UNCHANGED <<env, source, orders_ws, log_ws>>

\* lines 13-25: read the credentials, raise ValueError when one is missing
LoadConfig(r) ==
    /\ proc[r].pc = "start"
    /\ Scheduled(r)
    /\ proc' = [proc EXCEPT ![r].pc =
                    IF ~env.store_id \/ ~env.secret_token THEN "aborted" ELSE "connect",
                 ![r].source_seen = Len(source)]
    /\ gained' = FALSE
    /\ UNCHANGED <<env, source, orders_ws, log_ws>>

LogHeader == [description |-> "Description"]

\* lines 76-102: open the spreadsheet, create a missing worksheet with its
\* header row
Connect(r) ==
    /\ proc[r].pc = "connect"
    /\ orders_ws' = IF orders_ws.exists THEN orders_ws
                    ELSE [exists |-> TRUE, rows |-> <<header_flattened>>]
    /\ log_ws' = IF log_ws.exists THEN log_ws
                 ELSE [exists |-> TRUE, rows |-> <<LogHeader>>]
    /\ proc' = [proc EXCEPT ![r].pc = "read"]
    /\ UNCHANGED <<env, source, gained>>

\* ReadColumn with the test of the column left out
ReadColumnAlwaysFull(r) ==
    /\ proc[r].pc = "read"
    /\ proc' = [proc EXCEPT ![r].pc = "fetch", ![r].offset = 0,
                            ![r].rows_seen = Len(orders_ws.rows),
                            ![r].mode = "full", ![r].last_order_number = 0]
    /\ UNCHANGED <<env, source, orders_ws, log_ws, gained>>

\* ReadColumn with incremental mode only once the log holds an entry
ReadColumnTrustsLog(r) ==
    /\ proc[r].pc = "read"
    /\ LET existing_order_numbers ==
               DropFirst(col_values_order_number(orders_ws.rows))
           full == NoValidOrderNumbers(existing_order_numbers) \/ Len(log_ws.rows) <= 1
       IN proc' = [proc EXCEPT
               ![r].pc = "fetch",
               ![r].offset = 0,
               ![r].rows_seen = Len(orders_ws.rows),
               ![r].mode = IF full THEN "full" ELSE "incremental",
               ![r].last_order_number =
                   IF full THEN 0 ELSE MaxOrderNumber(existing_order_numbers)]
    /\ UNCHANGED <<env, source, orders_ws, log_ws, gained>>

\* lines 109-116 and 137-142: read the order-number column, choose the mode
ReadColumn(r) ==
    /\ proc[r].pc = "read"
    /\ LET existing_order_numbers ==
               DropFirst(col_values_order_number(orders_ws.rows))
       IN proc' = [proc EXCEPT
               ![r].pc = "fetch",
               ![r].offset = 0,
               ![r].rows_seen = Len(orders_ws.rows),
               ![r].mode = IF NoValidOrderNumbers(existing_order_numbers)
                           THEN "full" ELSE "incremental",
               ![r].last_order_number =
                   IF NoValidOrderNumbers(existing_order_numbers) THEN 0
                   ELSE MaxOrderNumber(existing_order_numbers)]
    /\ UNCHANGED <<env, source, orders_ws, log_ws, gained>>

Request(offset, orders, accepted) ==
    [offset |-> offset, items |-> Len(orders), accepted |-> Len(accepted), ok |-> TRUE]

\* FetchPageFull with the offset advanced by one less than the page size
FetchPageFullOverlapping(r) ==
    /\ proc[r].pc = "fetch"
    /\ proc[r].mode = "full"
    /\ LET orders == PageItems(QueryCreatedFrom(source, INITIAL_FETCH_DATE_STR),
                               proc[r].offset)
           all == proc[r].all_orders \o orders
       IN proc' = [proc EXCEPT
               ![r].all_orders = all,
               ![r].requests = Append(@, Request(proc[r].offset, orders, orders)),
               ![r].offset = IF Len(orders) < limit THEN @ ELSE @ + limit - 1,
               ![r].new_orders_to_add = IF Len(orders) < limit THEN all ELSE @,
               ![r].pc = IF Len(orders) < limit THEN "flatten" ELSE "fetch"]
    /\ UNCHANGED <<env, source, orders_ws, log_ws, gained>>

\* FetchPageFull with the loop ended by an empty page only
FetchPageFullUntilEmpty(r) ==
    /\ proc[r].pc = "fetch"
    /\ proc[r].mode = "full"
    /\ LET orders == PageItems(QueryCreatedFrom(source, INITIAL_FETCH_DATE_STR),
                               proc[r].offset)
           all == proc[r].all_orders \o orders
       IN proc' = [proc EXCEPT
               ![r].all_orders = all,
               ![r].requests = Append(@, Request(proc[r].offset, orders, orders)),
               ![r].offset = IF orders = <<>> THEN @ ELSE @ + limit,
               ![r].new_orders_to_add = IF orders = <<>> THEN all ELSE @,
               ![r].pc = IF orders = <<>> THEN "flatten" ELSE "fetch"]
    /\ UNCHANGED <<env, source, orders_ws, log_ws, gained>>

\* lines 117-134: one iteration of the full-fetch loop
FetchPageFull(r) ==
    /\ proc[r].pc = "fetch"
    /\ proc[r].mode = "full"
    /\ LET orders == PageItems(QueryCreatedFrom(source, INITIAL_FETCH_DATE_STR),
                               proc[r].offset)
           all == proc[r].all_orders \o orders
       IN proc' = [proc EXCEPT
               ![r].all_orders = all,
               ![r].requests = Append(@, Request(proc[r].offset, orders, orders)),
               ![r].offset = IF Len(orders) < limit THEN @ ELSE @ + limit,
               ![r].new_orders_to_add = IF Len(orders) < limit THEN all ELSE @,
               ![r].pc = IF Len(orders) < limit THEN "flatten" ELSE "fetch"]
    /\ UNCHANGED <<env, source, orders_ws, log_ws, gained>>

\* IsNew with >= for >
IsNewOrEqual(order, last_order_number) ==
    /\ order.orderNumber # None
    /\ order.orderNumber[1] # 0
    /\ order.orderNumber[1] >= last_order_number

\* order.get('orderNumber') and order.get('orderNumber') > last_order_number
IsNew(order, last_order_number) ==
    /\ order.orderNumber # None
    /\ order.orderNumber[1] # 0
    /\ order.orderNumber[1] > last_order_number

\* lines 143-167: one iteration of the incremental loop
FetchPageIncremental(r) ==
    /\ proc[r].pc = "fetch"
    /\ proc[r].mode = "incremental"
    /\ LET orders == PageItems(QuerySortedAsc(source), proc[r].offset)
           newly_fetched_orders ==
               SelectSeq(orders, LAMBDA o : IsNew(o, proc[r].last_order_number))
           all == proc[r].all_orders \o newly_fetched_orders
           stop == \/ orders = <<>>
                   \/ Len(orders) < limit
                   \/ newly_fetched_orders = <<>>
       IN proc' = [proc EXCEPT
               ![r].all_orders = all,
               ![r].requests = Append(@, Request(proc[r].offset, orders, newly_fetched_orders)),
               ![r].offset = IF stop THEN @ ELSE @ + limit,
               ![r].new_orders_to_add = IF stop THEN all ELSE @,
               ![r].pc = IF stop THEN "flatten" ELSE "fetch"]
    /\ UNCHANGED <<env, source, orders_ws, log_ws, gained>>

\* FetchError with the except branch keeping the orders fetched so far
FetchErrorKeepsFetched(r) ==
    /\ proc[r].pc \in {"read", "fetch"}
    /\ proc' = [proc EXCEPT
            ![r].pc = "flatten",
            ![r].fetch_failed = TRUE,
            ![r].new_orders_to_add = proc[r].all_orders]
    /\ UNCHANGED <<env, source, orders_ws, log_ws, gained>>

\* lines 169-171: the column read or a page request raises; the except
\* branch empties new_orders_to_add
FetchError(r) ==
    /\ proc[r].pc \in {"read", "fetch"}
    /\ proc' = [proc EXCEPT
            ![r].pc = "flatten",
            ![r].fetch_failed = TRUE,
            ![r].requests =
                IF proc[r].pc = "fetch"
                THEN Append(@, [offset |-> proc[r].offset, items |-> 0,
                                accepted |-> 0, ok |-> FALSE])
                ELSE @,
            ![r].new_orders_to_add = <<>>]
    /\ UNCHANGED <<env, source, orders_ws, log_ws, gained>>

\* lines 173-218
FlattenOrders(r) ==
    /\ proc[r].pc = "flatten"
    /\ proc' = [proc EXCEPT
            ![r].pc = "clean",
            ![r].new_rows_for_flattened_sheet = Flatten(proc[r].new_orders_to_add)]
    /\ UNCHANGED <<env, source, orders_ws, log_ws, gained>>

\* lines 220-246
CleanAndSort(r) ==
    /\ proc[r].pc = "clean"
    /\ \E ties \in {"kept", "reversed"} :
           proc' = [proc EXCEPT
               ![r].pc = "write",
               ![r].flattened_df =
                   sort_values(clean_dataframe_for_gspread(
                                   proc[r].new_rows_for_flattened_sheet), ties)]
    /\ UNCHANGED <<env, source, orders_ws, log_ws, gained>>

\* append_rows writing from the first row below the header
overwrite_rows(ws, values) ==
    [ws EXCEPT !.rows = SubSeq(@, 1, 1) \o [i \in 1..Len(values) |-> SheetRow(values[i])]]

\* append_rows: the rows go below the worksheet's content
append_rows(ws, values) ==
    [ws EXCEPT !.rows = @ \o [i \in 1..Len(values) |-> SheetRow(values[i])]]

\* AppendRows with the rows of orders the worksheet already shows left out
AppendRowsOnlyUnseen(r) ==
    /\ proc[r].pc = "write"
    /\ LET shown == {orders_ws.rows[i].order_number : i \in 1..Len(orders_ws.rows)}
           unseen == SelectSeq(proc[r].flattened_df,
                               LAMBDA row : NumberCell(row.order_number) \notin shown)
       IN /\ orders_ws' = IF unseen # <<>> THEN append_rows(orders_ws, unseen)
                          ELSE orders_ws
          /\ proc' = [proc EXCEPT ![r].pc = "log", ![r].written = Len(unseen)]
    /\ UNCHANGED <<env, source, log_ws, gained>>

\* lines 249-266
AppendRows(r) ==
    /\ proc[r].pc = "write"
    /\ orders_ws' = IF proc[r].flattened_df # <<>>
                    THEN append_rows(orders_ws, proc[r].flattened_df)
                    ELSE orders_ws
    /\ proc' = [proc EXCEPT ![r].pc = "log",
                            ![r].written = Len(proc[r].flattened_df)]
    /\ UNCHANGED <<env, source, log_ws, gained>>

\* line 262 raises: nothing catches it and the script ends
AppendRowsError(r) ==
    /\ proc[r].pc = "write"
    /\ proc[r].flattened_df # <<>>
    /\ proc' = [proc EXCEPT ![r] = Exit(@, "crashed")]
    /\ UNCHANGED <<env, source, orders_ws, log_ws, gained>>

\* lines 263-268: the process ends (killed, or the print of line 263 raises)
\* after append_rows has returned and before the log is written
CrashBeforeLog(r) ==
    /\ proc[r].pc = "log"
    /\ proc[r].written > 0
    /\ proc' = [proc EXCEPT ![r] = Exit(@, "crashed")]
    /\ UNCHANGED <<env, source, orders_ws, log_ws, gained>>

\* AppendLog inside the branch that appends rows
AppendLogOnlyWithRows(r) ==
    /\ proc[r].pc = "log"
    /\ log_ws' = IF proc[r].flattened_df = <<>> THEN log_ws
                 ELSE [log_ws EXCEPT !.rows =
                          Append(@, [description |-> Len(proc[r].flattened_df)])]
    /\ proc' = [proc EXCEPT ![r] =
                    Exit([@ EXCEPT !.logged = IF proc[r].flattened_df = <<>> THEN 0 ELSE 1],
                         "done")]
    /\ UNCHANGED <<env, source, orders_ws, gained>>

\* lines 269-281: the log row (its two timestamps are the wall clock's and
\* are left out)
AppendLog(r) ==
    /\ proc[r].pc = "log"
    /\ log_ws' = [log_ws EXCEPT !.rows =
                      Append(@, [description |-> Len(proc[r].flattened_df)])]
    /\ proc' = [proc EXCEPT ![r] = Exit([@ EXCEPT !.logged = 1], "done")]
    /\ UNCHANGED <<env, source, orders_ws, gained>>

\* AppendLogError with the rows of the invocation taken back
AppendLogErrorRollsBack(r) ==
    /\ proc[r].pc = "log"
    /\ orders_ws' = [orders_ws EXCEPT !.rows = SubSeq(@, 1, Len(@) - proc[r].written)]
    /\ proc' = [proc EXCEPT ![r] = Exit([@ EXCEPT !.log_failed = TRUE], "done")]
    /\ UNCHANGED <<env, source, log_ws, gained>>

\* lines 282-283: append_row raises and the except branch reports it
AppendLogError(r) ==
    /\ proc[r].pc = "log"
    /\ proc' = [proc EXCEPT ![r] = Exit([@ EXCEPT !.log_failed = TRUE], "done")]
    /\ UNCHANGED <<env, source, orders_ws, log_ws, gained>>

-----------------------------------------------------------------------------
(* The store *)

\* one invocation has ended and the next has not begun
BetweenRuns ==
    /\ \A r \in Runs : proc[r].pc \in Finished \cup {"start"}
    /\ \E r \in Runs : proc[r].pc \in Finished
    /\ \E r \in Runs : proc[r].pc = "start"

NextOrderNumber ==
    LET nums == {source[i].orderNumber[1] :
                    i \in {j \in 1..Len(source) : source[j].orderNumber # None}}
    IN IF nums = {} THEN 1
       ELSE 1 + CHOOSE n \in nums : \A m \in nums : m <= n

\* between two invocations a customer places an order, which gets the next
\* order number and is listed first
SourceGains ==
    /\ BetweenRuns
    /\ ~gained
    /\ gained' = TRUE
    /\ source' = <<BulkOrder(NextOrderNumber)>> \o source
    /\ UNCHANGED <<env, orders_ws, log_ws, proc>>

Next ==
    \/ \E r \in Runs :
           \/ LoadConfig(r)
           \/ Connect(r)
           \/ ReadColumn(r)
           \/ FetchPageFull(r)
           \/ FetchPageIncremental(r)
           \/ FetchError(r)
           \/ FlattenOrders(r)
           \/ CleanAndSort(r)
           \/ AppendRows(r)
           \/ AppendRowsError(r)
           \/ CrashBeforeLog(r)
           \/ AppendLog(r)
           \/ AppendLogError(r)
    \/ SourceGains

SpecLabels == InitLabels /\ [][Next]_vars

-----------------------------------------------------------------------------
(* Invocations that overlap: nothing in the script keeps a second process
   from starting while the first is running *)

\* stores of at most two hand-written orders
InitOverlap == InitWith(SmallSources({Order103, Order107}))

\* lines 13-25 of an invocation started whether or not the earlier ones
\* have ended (invocations are numbered in the order they start)
LoadConfigAnyTime(r) ==
    /\ proc[r].pc = "start"
    /\ \A q \in 1..(r - 1) : proc[q].pc # "start"
    /\ proc' = [proc EXCEPT ![r].pc =
                    IF ~env.store_id \/ ~env.secret_token THEN "aborted" ELSE "connect",
                 ![r].source_seen = Len(source)]
    /\ gained' = FALSE
    /\ UNCHANGED <<env, source, orders_ws, log_ws>>

NextOverlap ==
    \/ \E r \in Runs :
           \/ LoadConfigAnyTime(r)
           \/ Connect(r)
           \/ ReadColumn(r)
           \/ FetchPageFull(r)
           \/ FetchPageIncremental(r)
           \/ FetchError(r)
           \/ FlattenOrders(r)
           \/ CleanAndSort(r)
           \/ AppendRows(r)
           \/ AppendRowsError(r)
           \/ CrashBeforeLog(r)
           \/ AppendLog(r)
           \/ AppendLogError(r)
    \/ SourceGains

SpecOverlap == InitOverlap /\ [][NextOverlap]_vars

Spec == Init /\ [][Next]_vars

SpecLoose == InitLoose /\ [][Next]_vars

-----------------------------------------------------------------------------
(* Claims *)

\* the order numbers of a list of orders
Numbers(orders) ==
    {orders[i].orderNumber[1] : i \in {j \in 1..Len(orders) : orders[j].orderNumber # None}}

\* the fetch loop of invocation r has just ended without an exception
FetchEnded(r) == proc[r].pc = "flatten" /\ ~proc[r].fetch_failed

\* C1: in incremental mode, when the fetch loop ends without a failure, the
\* orders it accepted are exactly the source orders whose number is above
\* the watermark (the highest valid order number of the destination)
C1_IncrementalAcceptsEveryNewOrder ==
    \A r \in Runs :
        (FetchEnded(r) /\ proc[r].mode = "incremental")
            => Numbers(proc[r].new_orders_to_add)
                   = {n \in Numbers(source) : n > proc[r].last_order_number}

\* C2 as stated: two invocations in succession with no order gained in
\* between, and the second appends no row
C2_SecondRunAppendsNothing ==
    \A r \in 1..(MaxRuns - 1) :
        (/\ proc[r].pc = "done"
         /\ proc[r + 1].pc = "done"
         /\ proc[r + 1].source_seen = proc[r].source_seen)
            => proc[r + 1].written = 0

\* C2 amended: the same, when the fetch of the first invocation did not fail
C2_SecondRunAppendsNothingAfterCleanFetch ==
    \A r \in 1..(MaxRuns - 1) :
        (/\ proc[r].pc = "done"
         /\ ~proc[r].fetch_failed
         /\ proc[r + 1].pc = "done"
         /\ proc[r + 1].source_seen = proc[r].source_seen)
            => proc[r + 1].written = 0

\* the first invocation appended rows, the second fetched from the same
\* source without a failure
C2_Witness ==
    /\ proc[1].pc = "done" /\ ~proc[1].fetch_failed /\ proc[1].written > 0
    /\ proc[2].pc = "done" /\ ~proc[2].fetch_failed
    /\ proc[2].source_seen = proc[1].source_seen

\* the order numbers the worksheet shows below its header, row by row
SheetNumbers(rows) ==
    LET valid == SelectSeq(DropFirst(rows), LAMBDA row : isdigit(row.order_number))
    IN [i \in 1..Len(valid) |-> int(valid[i].order_number)]

\* the rows an order is flattened into
RowCount(order) == IF order.items = <<>> THEN 1 ELSE Len(order.items)

\* nums and the numbers of src are all in lo..hi: no number occurs in nums
\* more often than the order of that number has rows
RECURSIVE NoOrderTwice(_, _, _, _)
NoOrderTwice(nums, src, lo, hi) ==
    IF nums = <<>> THEN TRUE
    ELSE IF lo = hi THEN src # <<>> /\ Len(nums) <= RowCount(src[1])
    ELSE LET mid == (lo + hi) \div 2
         IN /\ NoOrderTwice(SelectSeq(nums, LAMBDA n : n <= mid),
                             SelectSeq(src, LAMBDA o : o.orderNumber[1] <= mid), lo, mid)
            /\ NoOrderTwice(SelectSeq(nums, LAMBDA n : n > mid),
                             SelectSeq(src, LAMBDA o : o.orderNumber[1] > mid), mid + 1, hi)

MaxOf(S) == CHOOSE n \in S : \A m \in S : m <= n

\* C3: whenever an invocation has appended (the only step that adds order
\* rows), the worksheet holds the rows of every source order at most once
C3_EveryOrderAppendedAtMostOnce ==
    (\E r \in Runs : proc[r].pc = "log")
        => LET nums == SheetNumbers(orders_ws.rows)
           IN nums = <<>> \/
              NoOrderTwice(nums, source, 0,
                           MaxOf({nums[i] : i \in 1..Len(nums)} \cup Numbers(source)))

\* two invocations have each appended rows
C3_Witness ==
    /\ proc[1].pc = "done" /\ proc[1].written > 0
    /\ proc[2].pc = "log" /\ proc[2].written > 0

IsPrefix(a, b) == Len(a) <= Len(b) /\ SubSeq(b, 1, Len(a)) = a

\* C4: every step leaves the rows the orders worksheet holds in place: the
\* old content is a prefix of the new content
C4_AppendOnly == [][IsPrefix(orders_ws.rows, orders_ws'.rows)]_vars

\* the second invocation has appended below the rows of the first
C4_Witness ==
    /\ proc[1].written > 0
    /\ proc[2].pc = "log" /\ proc[2].written > 0
    /\ Len(orders_ws.rows) = 1 + proc[1].written + proc[2].written

\* C5: after the except branch of the fetch the invocation goes on (it has
\* not ended abnormally and a next step is possible) with no new order, no
\* row to write and no row written
C5_FetchFailureGivesEmptyRun ==
    \A r \in Runs :
        proc[r].fetch_failed
            => /\ proc[r].pc \in {"flatten", "clean", "write", "log", "done"}
               /\ proc[r].new_orders_to_add = <<>>
               /\ proc[r].new_rows_for_flattened_sheet = <<>>
               /\ proc[r].flattened_df = <<>>
               /\ proc[r].written = 0
               /\ proc[r].pc # "done"
                     => ENABLED (FlattenOrders(r) \/ CleanAndSort(r)
                                    \/ AppendRows(r) \/ AppendLog(r))

\* a page request failed after an earlier page had brought orders, and the
\* invocation has reached the log step
C5_Witness ==
    \E r \in Runs :
        /\ proc[r].fetch_failed
        /\ proc[r].pc = "log"
        /\ Len(proc[r].requests) >= 2
        /\ proc[r].all_orders # <<>>

\* C6 as stated: every invocation that completes has appended one log row
C6_EveryRunAppendsOneLogRow ==
    \A r \in Runs : proc[r].pc = "done" => proc[r].logged = 1

\* C6 amended: an invocation appends its log row in its last step, after the
\* append step; one that completes has appended exactly one unless the log
\* append itself failed, and then none; the log worksheet holds exactly
\* these rows below its header
C6_OneLogRowUnlessTheLogAppendFails ==
    /\ \A r \in Runs :
           /\ proc[r].pc = "done"
                 => proc[r].logged = (IF proc[r].log_failed THEN 0 ELSE 1)
           /\ proc[r].pc # "done" => proc[r].logged = 0
    /\ log_ws.exists
          => Len(log_ws.rows) = 1 + Cardinality({r \in Runs : proc[r].logged = 1})

\* an invocation that wrote rows and one that found nothing to write have
\* each appended their log row
C6_Witness ==
    \E r, q \in Runs :
        /\ proc[r].pc = "done" /\ proc[r].written > 0 /\ proc[r].logged = 1
        /\ proc[q].pc = "done" /\ proc[q].written = 0 /\ proc[q].logged = 1
        /\ ~proc[q].fetch_failed

\* the rows below the header whose order-number cell is a valid order number
ValidEntries(rows) == {i \in 2..Len(rows) : isdigit(rows[i].order_number)}

\* C7: the step that reads the column chooses full-fetch mode exactly when
\* no row below the header holds a valid order number, and incremental mode
\* otherwise; once chosen, the mode stays until the invocation ends
C7_ModeSelection ==
    [][\A r \in Runs :
          /\ (proc[r].pc = "read" /\ proc'[r].pc = "fetch")
                => proc'[r].mode = (IF ValidEntries(orders_ws.rows) = {}
                                    THEN "full" ELSE "incremental")
          /\ (proc[r].mode # "none" /\ proc'[r].pc \notin Finished)
                => proc'[r].mode = proc[r].mode]_vars

\* full-fetch mode was chosen over a column that is not empty
C7_Witness ==
    \E r \in Runs :
        /\ proc[r].pc = "fetch" /\ proc[r].mode = "full"
        /\ Len(orders_ws.rows) > 1

\* the listing the requests of invocation r page through
Listing(r) ==
    IF proc[r].mode = "full"
    THEN QueryCreatedFrom(source, INITIAL_FETCH_DATE_STR)
    ELSE QuerySortedAsc(source)

\* page i of the listing ends the loop: it is short (or empty) or, in
\* incremental mode, holds no order above the watermark
StopsAt(listing, i, mode, last) ==
    LET page == PageItems(listing, (i - 1) * limit)
    IN \/ Len(page) < limit
       \/ /\ mode = "incremental"
          /\ \A k \in 1..Len(page) : ~(page[k].orderNumber[1] > last)

\* the first page that ends the loop; the page after the last full page is
\* short, so there is one
StoppingPage(listing, mode, last) ==
    LET stops == {i \in 1..(Len(listing) \div limit + 1) : StopsAt(listing, i, mode, last)}
    IN CHOOSE i \in stops : \A j \in stops : i <= j

\* C8: the requests of a fetch loop are for offsets 0, limit, 2*limit, ...;
\* none is made after the first page that ends the loop, and the loop ends
\* with the request for that page
C8_PaginationStopsAtFirstStoppingPage ==
    \A r \in Runs :
        (proc[r].pc \in {"fetch", "flatten"} /\ proc[r].mode # "none")
            => LET sp == StoppingPage(Listing(r), proc[r].mode, proc[r].last_order_number)
                   n == Len(proc[r].requests)
               IN /\ \A i \in 1..n : proc[r].requests[i].offset = (i - 1) * limit
                  /\ n <= sp
                  /\ proc[r].pc = "fetch" => n < sp
                  /\ FetchEnded(r) => n = sp

\* an incremental loop has ended after more than one request
C8_Witness ==
    \E r \in Runs :
        /\ FetchEnded(r) /\ proc[r].mode = "incremental"
        /\ Len(proc[r].requests) >= 2

\* the rows invocation r appended to the worksheet
AppendedRows(r) ==
    SubSeq(orders_ws.rows, Len(orders_ws.rows) - proc[r].written + 1, Len(orders_ws.rows))

\* C9: the rows an invocation has appended are in ascending order of their
\* order number, the rows without a number last
C9_AppendedRowsAscending ==
    \A r \in Runs :
        (proc[r].pc = "log" /\ proc[r].written > 0)
            => LET tail == AppendedRows(r)
               IN \A i \in 1..(Len(tail) - 1) :
                      LET a == tail[i].order_number
                          b == tail[i + 1].order_number
                      IN /\ a = <<>> => b = <<>>
                         /\ (a # <<>> /\ b # <<>>) => int(a) <= int(b)

\* orders fetched as 105, none, 103 were written as 103, 105, none
C9_Witness ==
    \E r \in Runs :
        /\ proc[r].pc = "log"
        /\ proc[r].new_orders_to_add = <<Order105, OrderUnnumbered, Order103>>
        /\ LET tail == AppendedRows(r)
           IN [i \in 1..Len(tail) |-> tail[i].order_number]
                  = <<NumberText(103), NumberText(105), <<>> >>

\* the number of rows of the first k orders
RECURSIVE RowsBefore(_, _)
RowsBefore(orders, k) ==
    IF k = 0 THEN 0 ELSE RowsBefore(orders, k - 1) + RowCount(orders[k])

\* C10: the flattened rows are, order by order, one row with null product
\* fields for an order without items and one row per item, in item order,
\* for an order with items; the rows of an order carry its order number and
\* one create_date
C10_FlatteningCardinality ==
    \A r \in Runs :
        proc[r].pc = "clean"
            => LET orders == proc[r].new_orders_to_add
                   rows == proc[r].new_rows_for_flattened_sheet
               IN /\ Len(rows) = RowsBefore(orders, Len(orders))
                  /\ \A k \in 1..Len(orders) :
                        LET o == orders[k]
                            base == RowsBefore(orders, k - 1)
                        IN /\ o.items = <<>>
                                => /\ rows[base + 1].product_name = None
                                   /\ rows[base + 1].category = None
                                   /\ rows[base + 1].size = None
                                   /\ rows[base + 1].color = None
                           /\ \A i \in 1..Len(o.items) :
                                  rows[base + i].product_name = o.items[i].name
                           /\ \A i \in 1..RowCount(o) :
                                  /\ rows[base + i].order_number = o.orderNumber
                                  /\ rows[base + i].create_date = rows[base + 1].create_date
                                  /\ (rows[base + i].create_date = None) = (o.createDate = None)

\* an order without items and an order with two items have been flattened
C10_Witness ==
    \E r \in Runs :
        /\ proc[r].pc = "clean"
        /\ proc[r].new_orders_to_add = <<Order103, Order107>>
        /\ Len(proc[r].new_rows_for_flattened_sheet) = 3

\* a credential is missing from the environment
MissingCredentials == ~env.store_id \/ ~env.secret_token

\* C11: with the store identifier or the secret token missing, an invocation
\* is either not begun or aborted; none has connected to the spreadsheet
\* (no worksheet was opened or created), requested a page, appended a row
\* or appended a log row
C11_MissingCredentialsAbortBeforeAnyCall ==
    MissingCredentials
        => /\ \A r \in Runs :
                  /\ proc[r].pc \in {"start", "aborted"}
                  /\ proc[r].requests = <<>>
                  /\ proc[r].written = 0
                  /\ proc[r].logged = 0
                  /\ proc[r].pc = "start" /\ Scheduled(r)
                        => ENABLED LoadConfig(r) /\ ~ENABLED Connect(r)
           /\ ~log_ws.exists
           /\ orders_ws = HeaderOnly

\* two invocations without the store identifier have both aborted
C11_Witness ==
    /\ ~env.store_id
    /\ \A r \in 1..2 : proc[r].pc = "aborted"

\* the rows of a list whose product_name is null
NullNames(rows) == Len(SelectSeq(rows, LAMBDA row : row.product_name = None))

\* C12: the rows an invocation has appended hold a null product_name for
\* every flattened row whose product_name was null (as many null cells as
\* there were null names)
C12_NullProductNameStaysNull ==
    \A r \in Runs :
        (proc[r].pc = "log" /\ proc[r].written > 0)
            => NullNames(AppendedRows(r)) = NullNames(proc[r].new_rows_for_flattened_sheet)

\* invocation r ended between its append and its log row
CrashedAfterAppend(r) == proc[r].pc = "crashed" /\ proc[r].written > 0

\* the order numbers of the rows invocation r appended, when invocation
\* r + 1 has just appended below them
RowsOfPrevious(r) ==
    SubSeq(orders_ws.rows,
           Len(orders_ws.rows) - proc[r + 1].written - proc[r].written + 1,
           Len(orders_ws.rows) - proc[r + 1].written)

\* the order numbers in the cells of a list of worksheet rows
CellNumbers(rows) ==
    {int(rows[i].order_number) : i \in {j \in 1..Len(rows) : isdigit(rows[j].order_number)}}

\* C13: the step in which an invocation ends after its append and before
\* its log row leaves both worksheets as they are (the rows stay, no log
\* row); and the rows the next invocation appends are of none of the orders
\* the crashed one appended
C13_CrashBetweenAppendAndLog ==
    /\ [][\A r \in Runs :
              (proc[r].pc = "log" /\ proc'[r].pc = "crashed")
                  => /\ orders_ws' = orders_ws
                     /\ log_ws' = log_ws
                     /\ proc'[r].logged = 0
                     /\ Len(log_ws.rows) = 1 + Cardinality({q \in Runs : proc[q].logged = 1})]_vars
    /\ [](\A r \in 1..(MaxRuns - 1) :
              (CrashedAfterAppend(r) /\ proc[r + 1].pc = "log")
                  => /\ Len(orders_ws.rows) > proc[r].written + proc[r + 1].written
                     /\ CellNumbers(RowsOfPrevious(r)) \cap CellNumbers(AppendedRows(r + 1)) = {})

\* after such a crash the store gained an order and the next invocation
\* appended its row, and nothing else
C13_Witness ==
    /\ CrashedAfterAppend(1)
    /\ proc[2].pc = "log" /\ proc[2].written = 1
    /\ proc[2].mode = "incremental"

\* C14: the step in which the log append fails ends the invocation
\* normally ("done", not "crashed"), leaves the orders worksheet as the
\* append step left it and adds no log row; an invocation whose log append
\* failed never acts again
C14_LogFailureIsCaught ==
    /\ [][\A r \in Runs :
              (~proc[r].log_failed /\ proc'[r].log_failed)
                  => /\ proc[r].pc = "log"
                     /\ proc'[r].pc = "done"
                     /\ proc'[r].written = proc[r].written
                     /\ orders_ws' = orders_ws
                     /\ log_ws' = log_ws]_vars
    /\ [](\A r \in Runs : proc[r].log_failed => proc[r].pc = "done" /\ proc[r].logged = 0)

\* an invocation appended rows, its log append failed, and the rows are the
\* last of the worksheet
C14_Witness ==
    \E r \in Runs :
        /\ proc[r].log_failed /\ proc[r].pc = "done" /\ proc[r].written > 0
        /\ Len(orders_ws.rows) > proc[r].written
        /\ \A q \in Runs : q # r => proc[q].written = 0

\* C15: when a full-fetch loop ends without a failure, the orders it
\* accepted are the orders the store lists from the cut-off date on, each
\* once and in listing order, whatever their numbers; it made one request
\* per full page and one more, and when the listing fills its pages exactly
\* that last request brought an empty page
C15_FullFetchAcceptsEveryListedOrder ==
    \A r \in Runs :
        (FetchEnded(r) /\ proc[r].mode = "full")
            => LET listing == QueryCreatedFrom(source, INITIAL_FETCH_DATE_STR)
                   n == Len(proc[r].requests)
               IN /\ proc[r].new_orders_to_add = listing
                  /\ n = Len(listing) \div limit + 1
                  /\ \A i \in 1..n : proc[r].requests[i].accepted = proc[r].requests[i].items
                  /\ Len(listing) % limit = 0 => proc[r].requests[n].items = 0

\* a full fetch of a store of exactly two pages ended after a third, empty
\* page
C15_Witness ==
    \E r \in Runs :
        /\ FetchEnded(r) /\ proc[r].mode = "full"
        /\ Len(proc[r].new_orders_to_add) = 2 * limit
        /\ Len(proc[r].requests) = 3
        /\ proc[r].requests[3].items = 0

\* the value of the last option whose normalized name is key, null when
\* there is none
LastValue(opts, key) ==
    LET matching == {i \in 1..Len(opts) : normalize_option(opts[i].name) = key}
    IN IF matching = {} THEN None
       ELSE opts[CHOOSE i \in matching : \A j \in matching : j <= i].value

\* C16: in the row of an item, category, size and color are each the value
\* of the last option whose normalized name is that key, or null when no
\* option has it; the other fields are the item's name and the order's
\* number, whatever the options
C16_LastOptionWins ==
    \A r \in Runs :
        proc[r].pc = "clean"
            => LET orders == proc[r].new_orders_to_add
                   rows == proc[r].new_rows_for_flattened_sheet
               IN \A k \in 1..Len(orders) :
                      \A i \in 1..Len(orders[k].items) :
                          LET row == rows[RowsBefore(orders, k - 1) + i]
                              opts == orders[k].items[i].selectedOptions
                          IN /\ row.category = LastValue(opts, KeyCategory)
                             /\ row.size = LastValue(opts, KeySize)
                             /\ row.color = LastValue(opts, KeyColor)
                             /\ row.product_name = orders[k].items[i].name
                             /\ row.order_number = orders[k].orderNumber

\* an item with two size options and one of another kind, and an item whose
\* colour option has no value, have been flattened: the later size won
C16_Witness ==
    \E r \in Runs :
        /\ proc[r].pc = "clean"
        /\ proc[r].new_orders_to_add = <<Order107>>
        /\ proc[r].new_rows_for_flattened_sheet[1].size = Some("43")
        /\ proc[r].new_rows_for_flattened_sheet[1].color = None
        /\ proc[r].new_rows_for_flattened_sheet[2].category = Some("Kids")

\* the label "designer category"
L_designer_category ==
    <<"d","e","s","i","g","n","e","r">> \o <<" ">> \o <<"c","a","t","e","g","o","r","y">>

\* the categories of the normalizer, in the order it tests them
Categories ==
    <<[kw |-> KwColor, key |-> KeyColor],
      [kw |-> KwSize, key |-> KeySize],
      [kw |-> KwCategory, key |-> KeyCategory],
      [kw |-> KwDesigner, key |-> KeyDesignerCategory],
      [kw |-> KwThickness, key |-> KeyThickness]>>

\* the categories with a keyword the lowercased label contains
Matching(label) ==
    {c \in 1..Len(Categories) : \E x \in Categories[c].kw : Contains(lower(label), x)}

\* the option labels of the orders invocation r is flattening
LabelsInFlight(r) ==
    LET orders == proc[r].new_orders_to_add
    IN UNION {UNION {{orders[k].items[i].selectedOptions[j].name :
                         j \in 1..Len(orders[k].items[i].selectedOptions)} :
                     i \in 1..Len(orders[k].items)} :
              k \in 1..Len(orders)}

\* an option label is normalized alike in small letters and in capitals
SameInAnyCase(label) ==
    /\ normalize_option(lower(label)) = normalize_option(label)
    /\ normalize_option(upper(label)) = normalize_option(label)

\* C17 as stated: a label that holds a keyword of a category is normalized
\* to that category's key, for every category it holds a keyword of
C17_EveryMatchingCategoryWins ==
    \A r \in Runs :
        proc[r].pc = "clean"
            => \A label \in LabelsInFlight(r) :
                   /\ \A c \in Matching(label) :
                          normalize_option(label) = Categories[c].key
                   /\ SameInAnyCase(label)

\* C17 amended: a label is normalized to the key of the first category, in
\* the order color, size, category, designer_category, thickness, that it
\* holds a keyword of, and to itself in small letters with "_" for " " when
\* it holds none; alike in any letter-case
C17_FirstMatchingCategoryWins ==
    \A r \in Runs :
        proc[r].pc = "clean"
            => \A label \in LabelsInFlight(r) :
                   /\ normalize_option(label) =
                          (IF Matching(label) = {}
                           THEN ReplaceSpaces(lower(label))
                           ELSE Categories[CHOOSE c \in Matching(label) :
                                              \A d \in Matching(label) : c <= d].key)
                   /\ SameInAnyCase(label)

\* an option labelled "DESIGNER CATEGORY", which holds a keyword of two
\* categories, has been flattened into the category column
C17_Witness ==
    \E r \in Runs :
        /\ proc[r].pc = "clean"
        /\ LabelsInFlight(r) = {upper(L_designer_category)}
        /\ Matching(upper(L_designer_category)) = {3, 4}
        /\ proc[r].new_rows_for_flattened_sheet[1].category = Some("x")

\* invocation r has read the column, has not reached the end of its
\* append step, and nothing was appended since it read
ReadNotAppended(r) ==
    /\ proc[r].mode # "none"
    /\ proc[r].pc \in {"fetch", "flatten", "clean", "write"}
    /\ proc[r].rows_seen = Len(orders_ws.rows)

\* the rows of the worksheet that show order number n
RowsShowing(n) ==
    Len(SelectSeq(orders_ws.rows, LAMBDA row : row.order_number = NumberText(n)))

\* invocations r and q read the same column, chose the same mode and
\* watermark and accepted the same orders, at least one
SameNewOrders(r, q) ==
    /\ proc[r].rows_seen = proc[q].rows_seen
    /\ proc[r].mode = proc[q].mode
    /\ proc[r].last_order_number = proc[q].last_order_number
    /\ ~proc[r].fetch_failed /\ ~proc[q].fetch_failed
    /\ proc[r].new_orders_to_add = proc[q].new_orders_to_add
    /\ proc[r].new_orders_to_add # <<>>

\* C18: two invocations that have both read the column before either has
\* appended hold the same mode and watermark and, their fetches ended
\* without failure, the same new orders; once both have appended, the
\* worksheet shows the rows of each of these orders twice
C18_OverlappingRunsAppendTwice ==
    \A r, q \in Runs :
        r # q =>
            /\ (ReadNotAppended(r) /\ ReadNotAppended(q))
                   => /\ proc[r].mode = proc[q].mode
                      /\ proc[r].last_order_number = proc[q].last_order_number
                      /\ (/\ proc[r].pc # "fetch" /\ ~proc[r].fetch_failed
                          /\ proc[q].pc # "fetch" /\ ~proc[q].fetch_failed)
                             => proc[r].new_orders_to_add = proc[q].new_orders_to_add
            /\ (proc[r].pc = "log" /\ proc[q].pc = "log" /\ SameNewOrders(r, q))
                   => \A k \in 1..Len(proc[r].new_orders_to_add) :
                          LET o == proc[r].new_orders_to_add[k]
                          IN RowsShowing(o.orderNumber[1]) >= 2 * RowCount(o)

\* two invocations overlapped, both appended the two rows of order 107,
\* and the worksheet shows four
C18_Witness ==
    /\ proc[1].pc = "log" /\ proc[2].pc = "log"
    /\ SameNewOrders(1, 2)
    /\ proc[1].new_orders_to_add = <<Order107>>
    /\ RowsShowing(107) = 4

=============================================================================
